---- MODULE Spec2Model ----
(***************************************************************************)
(* Model of the coarse-to-fine retrieval pipeline of qdrant-cuad-search:   *)
(* the filter compiler, the multi-stage funnel with its fallback and the   *)
(* collection operations                                                   *)
(* (app/infrastructure/vector_store/qdrant_client.py), the representation  *)
(* generator (app/infrastructure/embeddings/embedding_service.py), the     *)
(* orchestrator (app/domain/legal_search/search_orchestrator.py) and the   *)
(* HTTP routes (app/presentation/api/legal_search_routes.py).              *)
(***************************************************************************)
EXTENDS Integers, Sequences, FiniteSets, TLC

VARIABLES
    filters,           \* the filter spec handed to the compiler / to a search
    compiled,          \* what the last filter compilation produced
    index,             \* the collection: point id -> stored document
    query_embeddings,  \* the query representation bundle of the request
    limit,             \* the result limit of the request
    chain,             \* the stages of the multi-stage query last built
    calls,             \* the calls made to the collaborators, in order
    funnel,            \* what advanced_search gave its caller
    response,          \* what the operation gave its caller
    text,              \* the text handed to the representation generator
    cleaned_text,      \* the text after _clean_text
    chunks,            \* the chunks _chunk_text made of it
    multi_vectors,     \* what get_colbert_embeddings gave its caller
    collection_exists, \* whether the index holds the collection
    debug,             \* settings.debug
    request,           \* the request or operation last served
    http,              \* the HTTP response to it, if it has one
    tasks              \* the search requests in flight: request -> its locals

search_vars == <<filters, compiled, index, query_embeddings, limit, chain, calls, funnel, response>>
text_vars == <<text, cleaned_text, chunks, multi_vectors>>
api_vars == <<collection_exists, debug, request, http>>
vars == <<search_vars, text_vars, api_vars, tasks>>

(***************************************************************************)
(* Python values of a filter spec.  A value is tagged with its Python type *)
(* so that values of different types can be compared: None, a list of      *)
(* strings, a bare string, a number (held by its decimal text).            *)
(***************************************************************************)
NoneV == [t |-> "none", v |-> <<>>]
ListV(s) == [t |-> "list", v |-> s]
StrV(s) == [t |-> "str", v |-> <<s>>]
NumV(s) == [t |-> "num", v |-> <<s>>]

\* Python truthiness: None, [], "" and 0 are falsy.
Truthy(x) ==
    CASE x.t = "none" -> FALSE
      [] x.t = "list" -> Len(x.v) > 0
      [] x.t = "str" -> x.v[1] # ""
      [] x.t = "num" -> x.v[1] # "0"

\* dict.get(key): the value, or None when the key is absent.
Get(d, k) == IF k \in DOMAIN d THEN d[k] ELSE NoneV

\* Optional[Dict]: None, or a dict (a function on the keys present).
EmptyDict == [k \in {} |-> NoneV]
NoFilters == [some |-> FALSE, d |-> EmptyDict]
SomeFilters(d) == [some |-> TRUE, d |-> d]

\* `if filters`: None and {} are falsy.
FiltersTruthy(f) == f.some /\ DOMAIN f.d # {}

filterable_fields ==
    << "jurisdiction", "court_level", "case_type", "industry",
       "company_size", "contract_status", "complexity_level",
       "risk_level", "renewal_terms" >>

\* FieldCondition(key=..., match=MatchValue(value=...)), FieldCondition(key=...,
\* match=MatchAny(any=...)) and FieldCondition(key=..., range=Range(...)).
MatchValueCondition(field, value) ==
    [key |-> field, kind |-> "match_value", values |-> <<value>>,
     gte |-> NoneV, lte |-> NoneV]
MatchAnyCondition(field, values) ==
    [key |-> field, kind |-> "match_any", values |-> values,
     gte |-> NoneV, lte |-> NoneV]
RangeCondition(field, gte, lte) ==
    [key |-> field, kind |-> "range", values |-> <<>>, gte |-> gte, lte |-> lte]

\* Range is qdrant_client.models.Range, the numeric range: its bounds are
\* floats, so constructing it with a bound that is not a number (an ISO date
\* string such as "2023-01-01", a list) raises a validation error.
RangeAccepts(x) == x.t \in {"none", "num"}

\* One pass of the loop body over filterable_fields: the condition the field
\* contributes, if any.
FieldCondition_AlwaysAny(d, field) ==
    LET field_values == Get(d, field)
    IN IF Truthy(field_values) /\ field_values.t = "list" /\ Len(field_values.v) > 0
       THEN <<MatchAnyCondition(field, field_values.v)>>
       ELSE <<>>

FieldCondition_ScalarMatch(d, field) ==
    LET field_values == Get(d, field)
    IN IF Truthy(field_values)
       THEN IF field_values.t = "list"
            THEN IF Len(field_values.v) = 1
                 THEN <<MatchValueCondition(field, field_values.v[1])>>
                 ELSE <<MatchAnyCondition(field, field_values.v)>>
            ELSE <<MatchValueCondition(field, field_values.v[1])>>
       ELSE <<>>

\* The loop body, as the code has it.

FieldCondition(d, field) ==
    LET field_values == Get(d, field)
    IN IF Truthy(field_values)
       THEN IF field_values.t = "list" /\ Len(field_values.v) > 0
            THEN IF Len(field_values.v) = 1
                 THEN <<MatchValueCondition(field, field_values.v[1])>>
                 ELSE <<MatchAnyCondition(field, field_values.v)>>
            ELSE <<>>
       ELSE <<>>

\* The loop over filterable_fields, in order: the conditions of fields i and on.
RECURSIVE FieldConditions(_, _)
FieldConditions(d, i) ==
    IF i > Len(filterable_fields) THEN <<>>
    ELSE FieldCondition(d, filterable_fields[i]) \o FieldConditions(d, i + 1)

NoFilter == [kind |-> "none", must |-> <<>>]
Filter(conditions) == [kind |-> "filter", must |-> conditions]
Raised == [kind |-> "raised", must |-> <<>>]

\* _build_filter(filters), on a dict.
_build_filter_AlwaysFilter(d) ==
    LET conditions == FieldConditions(d, 1)
        date_from == Get(d, "date_from")
        date_to == Get(d, "date_to")
    IN IF Truthy(date_from) \/ Truthy(date_to)
       THEN LET gte == IF Truthy(date_from) THEN date_from ELSE NoneV
                lte == IF Truthy(date_to) THEN date_to ELSE NoneV
            IN IF RangeAccepts(gte) /\ RangeAccepts(lte)
               THEN Filter(conditions \o <<RangeCondition("date_filed", gte, lte)>>)
               ELSE Raised
       ELSE Filter(conditions)

_build_filter(d) ==
    LET conditions == FieldConditions(d, 1)
        date_from == Get(d, "date_from")
        date_to == Get(d, "date_to")
    IN IF Truthy(date_from) \/ Truthy(date_to)
       THEN LET gte == IF Truthy(date_from) THEN date_from ELSE NoneV
                lte == IF Truthy(date_to) THEN date_to ELSE NoneV
            IN IF RangeAccepts(gte) /\ RangeAccepts(lte)
               THEN Filter(conditions \o <<RangeCondition("date_filed", gte, lte)>>)
               ELSE Raised
       ELSE IF Len(conditions) > 0 THEN Filter(conditions) ELSE NoFilter

\* `self._build_filter(filters) if filters else None`
CompileFilter(f) == IF FiltersTruthy(f) THEN _build_filter(f.d) ELSE NoFilter

(***************************************************************************)
(* The vector index (the Qdrant collection), as the funnel uses it.        *)
(***************************************************************************)
Kinds == {"dense", "rerank", "colbert", "byte"}

\* Similarity of the query vector of kind q to the vector stored under the
\* name `using` of point id, in hundredths: a fixed table with ties and with
\* values on both sides of the threshold.
Sim(q, using, id) ==
    LET a == CASE q = "byte" -> 3 [] q = "dense" -> 7 [] q = "rerank" -> 1
               [] q = "colbert" -> 9 [] OTHER -> 0
        b == CASE using = "byte" -> 1 [] using = "dense" -> 4 [] using = "rerank" -> 2
               [] using = "colbert" -> 8 [] OTHER -> 5
    IN ((id * a + b) % 10) * 10

\* A condition of a compiled filter, on a stored payload.  A range condition
\* compares numbers; the payloads store date_filed as a string.
Satisfies(payload, c) ==
    CASE c.kind = "match_value" -> Get(payload, c.key) = StrV(c.values[1])
      [] c.kind = "match_any" ->
            \E i \in DOMAIN c.values : Get(payload, c.key) = StrV(c.values[i])
      [] c.kind = "range" -> Get(payload, c.key).t = "num"

\* Filter(must=[...]): every condition holds; no filter: every point passes.
Passes(payload, f) ==
    f.kind = "filter" => \A i \in DOMAIN f.must : Satisfies(payload, f.must[i])

\* The points of S, best first: by score descending and, on ties (and when
\* there is no query vector), in the index's own order, by id.
RECURSIVE Ranked(_, _, _, _)
Ranked(S, q, using, ix) ==
    IF S = {} THEN <<>>
    ELSE LET score(d) == IF q = "None" THEN 0 ELSE Sim(q, using, d)
             best == CHOOSE d \in S : \A e \in S :
                        score(d) > score(e) \/ (score(d) = score(e) /\ d <= e)
         IN <<[id |-> best, payload |-> ix[best].payload, score |-> score(best)]>>
            \o Ranked(S \ {best}, q, using, ix)

Take(seq, n) == SubSeq(seq, 1, IF n < Len(seq) THEN n ELSE Len(seq))

Ids(hits) == { hits[i].id : i \in DOMAIN hits }

\* One stage of a query over the candidate set S: the points of S that store
\* a vector under the stage's name and pass its filter, ranked, cut at its limit.
StageHits(stage, S, ix) ==
    Take(Ranked({ d \in S : stage.using \in ix[d].vectors
                              /\ Passes(ix[d].payload, stage.filter) },
                stage.query, stage.using, ix), stage.limit)

\* query_points(prefetch=..., query=..., using=..., limit=...): the stages of
\* the chain, each over the hits of the one nested in it.
RECURSIVE ChainHits(_, _, _)
ChainHits(stages, n, ix) ==
    IF n = 1 THEN StageHits(stages[1], DOMAIN ix, ix)
    ELSE StageHits(stages[n], Ids(ChainHits(stages, n - 1, ix)), ix)

\* The index refuses a query that has prefetches but no query vector to merge
\* them with.
Refused(stages) ==
    \E n \in DOMAIN stages : n > 1 /\ stages[n].query = "None"

(***************************************************************************)
(* AdvancedQdrantService.advanced_search and _fallback_search.             *)
(***************************************************************************)
prefetch_limit == 1000
rerank_limit == 100
\* settings.similarity_threshold = 0.3, in hundredths
similarity_threshold == 30

\* The bundle is a dict: its keys in insertion order.
Has(b, k) == \E i \in DOMAIN b : b[i] = k
\* query_embeddings.get(k): the vector (named by its kind), or None.
GetVector(b, k) == IF Has(b, k) THEN k ELSE "None"

Stage(query, using, lim, f) ==
    [query |-> query, using |-> using, limit |-> lim, filter |-> f]

\* Stage 1: Prefetch(query=get('byte', get('dense')), using="byte",
\* limit=prefetch_limit, filter=qdrant_filter)
PrefetchStage_NoFilter(b, qdrant_filter) ==
    Stage(IF Has(b, "byte") THEN "byte" ELSE GetVector(b, "dense"),
          "byte", prefetch_limit, NoFilter)

PrefetchStage(b, qdrant_filter) ==
    Stage(IF Has(b, "byte") THEN "byte" ELSE GetVector(b, "dense"),
          "byte", prefetch_limit, qdrant_filter)

\* Stage 2, if 'rerank' in query_embeddings.
RerankStages_Always(b) ==
    <<Stage(GetVector(b, "rerank"), "rerank", rerank_limit, NoFilter)>>

\* Stage 2, if 'rerank' in query_embeddings.
RerankStages(b) ==
    IF Has(b, "rerank")
    THEN <<Stage("rerank", "rerank", rerank_limit, NoFilter)>>
    ELSE <<>>

\* Stage 3: the final query_points call.
FinalStage(b, lim) ==
    IF Has(b, "colbert")
    THEN Stage("colbert", "colbert", lim, NoFilter)
    ELSE Stage(GetVector(b, "dense"), "dense", lim, NoFilter)

BuildChain_FilterEveryStage(b, qdrant_filter, lim) ==
    LET stages == <<PrefetchStage(b, qdrant_filter)>> \o RerankStages(b)
                     \o <<FinalStage(b, lim)>>
    IN [n \in DOMAIN stages |-> [stages[n] EXCEPT !.filter = qdrant_filter]]

BuildChain(b, qdrant_filter, lim) ==
    <<PrefetchStage(b, qdrant_filter)>> \o RerankStages(b) \o <<FinalStage(b, lim)>>

Call(op, outcome) == [op |-> op, outcome |-> outcome]
Results(hits) == [kind |-> "results", results |-> hits, error |-> "none"]
Raise(error) == [kind |-> "raised", results |-> <<>>, error |-> error]

\* What a call to the index does: the environment's outcome, or a query-level
\* error when the index refuses the query.
Outcomes == {"ok", "query_error", "unreachable"}

\* The fallback's query vector: dense, else rerank, else the first value.
FallbackVector(b) ==
    IF Has(b, "dense") THEN "dense"
    ELSE IF Has(b, "rerank") THEN "rerank"
    ELSE IF Len(b) > 0 THEN b[1] ELSE "IndexError"

\* client.search(query_vector, query_filter, limit, score_threshold)
SearchHits_NoThreshold(q, f, lim, ix) ==
    LET all == Ranked({ d \in DOMAIN ix : Passes(ix[d].payload, f) }, q, "", ix)
    IN Take(all, lim)

\* client.search(query_vector, query_filter, limit, score_threshold)
SearchHits(q, f, lim, ix) ==
    LET all == Ranked({ d \in DOMAIN ix : Passes(ix[d].payload, f) }, q, "", ix)
    IN Take(SelectSeq(all, LAMBDA h : h.score >= similarity_threshold), lim)

\* _fallback_search: what it returns and the calls it makes.  Every exception
\* (a filter that does not compile, an empty bundle, any failure of the index
\* call) is caught and turned into an empty list.
fallback_search_Reraise(b, f, lim, ix, fs) ==
    LET qdrant_filter == CompileFilter(f)
        query_vector == FallbackVector(b)
    IN IF qdrant_filter.kind = "raised" \/ query_vector = "IndexError"
       THEN [response |-> Raise("fallback"), calls |-> <<Call("fallback", "raised")>>]
       ELSE IF fs = "ok"
            THEN [response |-> Results(SearchHits(query_vector, qdrant_filter, lim, ix)),
                  calls |-> <<Call("fallback", "ok"), Call("search", fs)>>]
            ELSE [response |-> Raise(fs),
                  calls |-> <<Call("fallback", "raised"), Call("search", fs)>>]

fallback_search_Unfiltered(b, f, lim, ix, fs) ==
    LET compiled_filter == CompileFilter(f)
        qdrant_filter == IF compiled_filter.kind = "raised" THEN NoFilter
                         ELSE compiled_filter
        query_vector == FallbackVector(b)
    IN IF query_vector = "IndexError"
       THEN [response |-> Results(<<>>), calls |-> <<Call("fallback", "raised")>>]
       ELSE IF fs = "ok"
            THEN [response |-> Results(SearchHits(query_vector, qdrant_filter, lim, ix)),
                  calls |-> <<Call("fallback", "ok"), Call("search", fs)>>]
            ELSE [response |-> Results(<<>>),
                  calls |-> <<Call("fallback", "raised"), Call("search", fs)>>]

\* _fallback_search, as the code has it.
fallback_search(b, f, lim, ix, fs) ==
    LET qdrant_filter == CompileFilter(f)
        query_vector == FallbackVector(b)
    IN IF qdrant_filter.kind = "raised" \/ query_vector = "IndexError"
       THEN [response |-> Results(<<>>), calls |-> <<Call("fallback", "raised")>>]
       ELSE IF fs = "ok"
            THEN [response |-> Results(SearchHits(query_vector, qdrant_filter, lim, ix)),
                  calls |-> <<Call("fallback", "ok"), Call("search", fs)>>]
            ELSE [response |-> Results(<<>>),
                  calls |-> <<Call("fallback", "raised"), Call("search", fs)>>]

\* advanced_search: what it returns, the chain it built, the filter it
\* compiled and the calls it makes.  Every exception of the multi-stage
\* attempt is caught and answered with the fallback's return value.
advanced_search_NoFallback(b, f, lim, ix, qp, fs) ==
    LET qdrant_filter == CompileFilter(f)
        stages == BuildChain(b, qdrant_filter, lim)
        outcome == IF qp = "ok" /\ Refused(stages) THEN "query_error" ELSE qp
    IN IF qdrant_filter.kind = "raised"
       THEN [response |-> Results(<<>>), chain |-> <<>>, compiled |-> qdrant_filter,
             calls |-> <<Call("advanced", "raised")>>]
       ELSE IF outcome = "ok"
            THEN [response |-> Results(ChainHits(stages, Len(stages), ix)),
                  chain |-> stages, compiled |-> qdrant_filter,
                  calls |-> <<Call("advanced", "ok"), Call("query_points", outcome)>>]
            ELSE [response |-> Results(<<>>), chain |-> stages, compiled |-> qdrant_filter,
                  calls |-> <<Call("advanced", "raised"), Call("query_points", outcome)>>]

advanced_search(b, f, lim, ix, qp, fs) ==
    LET qdrant_filter == CompileFilter(f)
        stages == BuildChain(b, qdrant_filter, lim)
        outcome == IF qp = "ok" /\ Refused(stages) THEN "query_error" ELSE qp
        fb == fallback_search(b, f, lim, ix, fs)
    IN IF qdrant_filter.kind = "raised"
       THEN [response |-> fb.response, chain |-> <<>>, compiled |-> qdrant_filter,
             calls |-> <<Call("advanced", "raised")>> \o fb.calls]
       ELSE IF outcome = "ok"
            THEN [response |-> Results(ChainHits(stages, Len(stages), ix)),
                  chain |-> stages, compiled |-> qdrant_filter,
                  calls |-> <<Call("advanced", "ok"), Call("query_points", outcome)>>]
            ELSE [response |-> fb.response, chain |-> stages, compiled |-> qdrant_filter,
                  calls |-> <<Call("advanced", "raised"), Call("query_points", outcome)>>
                            \o fb.calls]

(***************************************************************************)
(* FastEmbedService.get_all_embeddings and SearchOrchestrator.             *)
(***************************************************************************)
\* The bundle get_all_embeddings fills, in the order it fills it.
AllEmbeddings == <<"dense", "rerank", "colbert", "byte">>

Getter(kind) ==
    CASE kind = "dense" -> "get_dense_embedding"
      [] kind = "rerank" -> "get_rerank_embedding"
      [] kind = "colbert" -> "get_colbert_embeddings"
      [] kind = "byte" -> "get_byte_vector"

\* The position in AllEmbeddings of the getter that raises; one past the end
\* when none does.
FailsAt(ef) ==
    IF ef = "none" THEN Len(AllEmbeddings) + 1
    ELSE CHOOSE i \in DOMAIN AllEmbeddings : AllEmbeddings[i] = ef

EmbeddingCalls(ef) ==
    [i \in 1..(IF ef = "none" THEN Len(AllEmbeddings) ELSE FailsAt(ef)) |->
        Call(Getter(AllEmbeddings[i]), IF AllEmbeddings[i] = ef THEN "raised" ELSE "ok")]

\* get_all_embeddings: the getters run in order; the first that raises ends
\* the call, which re-raises; `results` is returned only when all four are in.
get_all_embeddings_Partial(ef) ==
    [raised |-> FALSE,
     results |-> SubSeq(AllEmbeddings, 1, FailsAt(ef) - 1),
     calls |-> EmbeddingCalls(ef)]

get_all_embeddings(ef) ==
    [raised |-> ef # "none",
     results |-> IF ef = "none" THEN AllEmbeddings ELSE <<>>,
     calls |-> EmbeddingCalls(ef)]

\* _convert_to_legal_case: the body is `pass`, so it returns None.
_convert_to_legal_case(result) == NoneV

\* _convert_to_legal_cases
_convert_to_legal_cases(results) ==
    [i \in DOMAIN results |-> _convert_to_legal_case(results[i])]

\* SearchResponse(results=legal_cases, ...): results is List[LegalCase], and
\* None is not a LegalCase.
SearchResponse(legal_cases) ==
    IF \E i \in DOMAIN legal_cases : legal_cases[i] = NoneV
    THEN Raise("validation")
    ELSE Results(legal_cases)

\* semantic_search: embeddings, then the funnel (the orchestrator's
\* vector_store search is AdvancedQdrantService.advanced_search), then the
\* conversion; whatever raises is logged and raised again.
semantic_search(f, lim, ix, ef, qp, fs) ==
    LET emb == get_all_embeddings(ef)
        run == advanced_search(emb.results, f, lim, ix, qp, fs)
    IN IF emb.raised
       THEN [response |-> Raise("embedding"), embeddings |-> <<>>, funnel |-> Raise("not called"),
             chain |-> <<>>, compiled |-> [kind |-> "unset", must |-> <<>>], calls |-> emb.calls]
       ELSE [response |-> IF run.response.kind = "raised" THEN run.response
                          ELSE SearchResponse(_convert_to_legal_cases(run.response.results)),
             embeddings |-> emb.results, funnel |-> run.response,
             chain |-> run.chain, compiled |-> run.compiled,
             calls |-> emb.calls \o run.calls]

(***************************************************************************)
(* Strings, run-length encoded: a string is a sequence of runs, a run is n *)
(* copies of one character, and no two adjacent runs have the same         *)
(* character.                                                              *)
(***************************************************************************)
Run(c, n) == [c |-> c, n |-> n]
IsSpace(c) == c \in {" ", "\n"}

\* len(s)
RECURSIVE StrLen(_)
StrLen(s) == IF s = <<>> THEN 0 ELSE Head(s).n + StrLen(Tail(s))

\* s + t
Concat(s, t) ==
    IF s = <<>> THEN t
    ELSE IF t = <<>> THEN s
    ELSE IF s[Len(s)].c = t[1].c
         THEN SubSeq(s, 1, Len(s) - 1) \o <<Run(t[1].c, s[Len(s)].n + t[1].n)>> \o Tail(t)
         ELSE s \o t

\* s[:k]
RECURSIVE Prefix(_, _)
Prefix(s, k) ==
    IF s = <<>> \/ k <= 0 THEN <<>>
    ELSE IF Head(s).n >= k THEN <<Run(Head(s).c, k)>>
    ELSE <<Head(s)>> \o Prefix(Tail(s), k - Head(s).n)

\* s.split(): the maximal runs of non-whitespace characters, in order.
RECURSIVE SplitFrom(_, _, _)
SplitFrom(s, i, word) ==
    IF i > Len(s) THEN (IF word = <<>> THEN <<>> ELSE <<word>>)
    ELSE IF IsSpace(s[i].c)
         THEN (IF word = <<>> THEN <<>> ELSE <<word>>) \o SplitFrom(s, i + 1, <<>>)
         ELSE SplitFrom(s, i + 1, word \o <<s[i]>>)

Split(s) == SplitFrom(s, 1, <<>>)

\* " ".join(words)
RECURSIVE Join(_)
Join(words) ==
    IF words = <<>> THEN <<>>
    ELSE IF Len(words) = 1 THEN words[1]
    ELSE Concat(Concat(words[1], <<Run(" ", 1)>>), Join(Tail(words)))

\* s.strip() is not empty
NotBlank(s) == \E i \in DOMAIN s : ~IsSpace(s[i].c)

(***************************************************************************)
(* FastEmbedService: _clean_text, _chunk_text, get_colbert_embeddings.     *)
(***************************************************************************)
max_chars == 2000
max_chunk_size == 200
\* chunks[:8]
max_vectors == 8

_clean_text_NoTruncation(t) ==
    IF t = <<>> THEN <<>> ELSE Join(Split(t))

_clean_text(t) ==
    IF t = <<>> THEN <<>>
    ELSE LET joined == Join(Split(t))
         IN IF StrLen(joined) > max_chars
            THEN Concat(Prefix(joined, max_chars), <<Run(".", 3)>>)
            ELSE joined

\* The loop of _chunk_text from word i on, with the chunk being filled and
\* its running length; the chunks it appends from there on.
RECURSIVE ChunkFrom(_, _, _, _, _)
ChunkFrom(words, i, current_chunk, current_length, size) ==
    IF i > Len(words)
    THEN (IF current_chunk # <<>> THEN <<Join(current_chunk)>> ELSE <<>>)
    ELSE LET word == words[i]
         IN IF current_length + StrLen(word) + 1 > size /\ current_chunk # <<>>
            THEN <<Join(current_chunk)>>
                 \o ChunkFrom(words, i + 1, <<word>>, StrLen(word), size)
            ELSE ChunkFrom(words, i + 1, current_chunk \o <<word>>,
                           current_length + StrLen(word) + 1, size)

_chunk_text_Whole(t, size) ==
    IF Split(t) = <<>> THEN <<>> ELSE <<Join(Split(t))>>

_chunk_text(t, size) == ChunkFrom(Split(t), 1, <<>>, 0, size)

\* What the call gave: the vectors, or the exception raised again; and the
\* value before any call.
Vectors(vs) == [called |-> TRUE, raised |-> FALSE, vectors |-> vs]
EmbedRaised == [called |-> TRUE, raised |-> TRUE, vectors |-> <<>>]
NoVectors == [called |-> FALSE, raised |-> FALSE, vectors |-> <<>>]

\* The chunks the loop embeds: those of chunks[:8] that are not blank.  A
\* vector is named by the text it was computed from.
Embedded_NoCap(cs) == SelectSeq(cs, NotBlank)

Embedded(cs) ==
    SelectSeq(SubSeq(cs, 1, IF Len(cs) < max_vectors THEN Len(cs) ELSE max_vectors),
              NotBlank)

\* get_colbert_embeddings, with `ok` telling whether the model's embed calls
\* succeed; any exception is logged and raised again.
get_colbert_embeddings(t, ok) ==
    LET cleaned == _clean_text(t)
        cs == _chunk_text(cleaned, max_chunk_size)
        vs == Embedded(cs)
    IN [cleaned_text |-> cleaned, chunks |-> cs,
        result |-> IF ~ok THEN EmbedRaised
                   ELSE IF vs = <<>> THEN Vectors(<<cleaned>>) ELSE Vectors(vs)]

(***************************************************************************)
(* Inputs.                                                                 *)
(***************************************************************************)
CategoricalValues ==
    { NoneV, ListV(<<>>), ListV(<<"California">>),
      ListV(<<"California", "Texas">>), StrV("California"), NumV("5") }
DateValues == { NoneV, StrV("2023-01-01"), NumV("20230101") }
UnknownValues == { ListV(<<"Delaware">>) }

KeyValues(k) ==
    CASE k \in {"jurisdiction", "case_type", "renewal_terms"} -> CategoricalValues
      [] k \in {"date_from", "date_to"} -> DateValues
      [] OTHER -> UnknownValues

FilterKeys == {"jurisdiction", "case_type", "renewal_terms", "date_from", "date_to", "venue"}
SearchFilterKeys == {"jurisdiction", "case_type", "date_from"}

SearchKeyValues(k) ==
    CASE k = "jurisdiction" ->
            { ListV(<<>>), ListV(<<"California">>),
              ListV(<<"California", "Texas">>), StrV("California") }
      [] k = "case_type" -> { ListV(<<"License">>) }
      [] k = "date_from" -> { StrV("2023-01-01") }

Dicts(keys) ==
    UNION { { d \in [ks -> UNION {KeyValues(k) : k \in ks}] :
                \A k \in ks : d[k] \in KeyValues(k) } : ks \in SUBSET keys }

SearchDicts ==
    UNION { { d \in [ks -> UNION {SearchKeyValues(k) : k \in ks}] :
                \A k \in ks : d[k] \in SearchKeyValues(k) } : ks \in SUBSET SearchFilterKeys }

FilterSpecs == {NoFilters} \cup { SomeFilters(d) : d \in Dicts(FilterKeys) }
SearchFilterSpecs == {NoFilters} \cup { SomeFilters(d) : d \in SearchDicts }

NumDocs == 2
MaxLimit == 2

Payload(jurisdiction, case_type) ==
    [k \in {"jurisdiction", "case_type", "date_filed"} |->
        CASE k = "jurisdiction" -> StrV(jurisdiction)
          [] k = "case_type" -> StrV(case_type)
          [] k = "date_filed" -> StrV("2023-06-15")]

\* A stored point: its payload and the names of the vectors it carries.
Documents ==
    { [payload |-> Payload("California", "License"), vectors |-> Kinds],
      [payload |-> Payload("Texas", "License"), vectors |-> Kinds],
      [payload |-> Payload("California", "NDA"), vectors |-> Kinds],
      [payload |-> Payload("Texas", "NDA"), vectors |-> {"dense"}] }

Indexes == [1..NumDocs -> Documents]

\* The bundles: every subset of the kinds in the order get_all_embeddings
\* inserts them, and one in another insertion order.
RECURSIVE InOrder(_, _)
InOrder(S, order) ==
    IF order = <<>> THEN <<>>
    ELSE (IF Head(order) \in S THEN <<Head(order)>> ELSE <<>>) \o InOrder(S, Tail(order))

Bundles == { InOrder(S, AllEmbeddings) : S \in SUBSET Kinds } \cup {<<"byte", "colbert">>}

Unset == [kind |-> "unset", must |-> <<>>]
NoResponse == [kind |-> "none", results |-> <<>>, error |-> "none"]

Idle ==
    /\ compiled = Unset
    /\ query_embeddings = <<>>
    /\ limit = 0
    /\ chain = <<>>
    /\ calls = <<>>
    /\ funnel = NoResponse
    /\ response = NoResponse

NoText ==
    /\ text = <<>>
    /\ cleaned_text = <<>>
    /\ chunks = <<>>
    /\ multi_vectors = NoVectors

NoRequest == [op |-> "none"]
NoHttp == [status |-> 0, detail |-> "none", exc |-> "none", body |-> <<>>]

\* No HTTP request is being served.
NoApi ==
    /\ collection_exists = TRUE
    /\ debug = FALSE
    /\ request = NoRequest
    /\ http = NoHttp

(***************************************************************************)
(* The filter compiler alone.                                              *)
(***************************************************************************)
InitFilter ==
    /\ filters \in FilterSpecs
    /\ index = <<>>
    /\ Idle
    /\ tasks = <<>>
    /\ NoText
    /\ NoApi

DoCompileFilter ==
    /\ compiled = Unset
    /\ compiled' = CompileFilter(filters)
    /\ UNCHANGED <<filters, index, query_embeddings, limit, chain, calls, funnel, response>>
    /\ UNCHANGED <<text_vars, api_vars, tasks>>

NextFilter == DoCompileFilter

SpecFilter == InitFilter /\ [][NextFilter]_vars

(***************************************************************************)
(* Searches.                                                               *)
(***************************************************************************)
InitSearch ==
    /\ index \in Indexes
    /\ filters = NoFilters
    /\ Idle
    /\ tasks = <<>>
    /\ NoText
    /\ NoApi

\* A call of advanced_search(query_embeddings, filters, limit).
AdvancedSearch ==
    /\ response = NoResponse
    /\ \E b \in Bundles, f \in SearchFilterSpecs, lim \in 1..MaxLimit,
          qp \in Outcomes, fs \in Outcomes :
          LET run == advanced_search(b, f, lim, index, qp, fs)
          IN /\ query_embeddings' = b
             /\ filters' = f
             /\ limit' = lim
             /\ compiled' = run.compiled
             /\ chain' = run.chain
             /\ calls' = run.calls
             /\ funnel' = run.response
             /\ response' = run.response
    /\ UNCHANGED <<index, text_vars, api_vars, tasks>>

\* A request served by SearchOrchestrator.semantic_search.
SemanticSearch ==
    /\ response = NoResponse
    /\ \E f \in SearchFilterSpecs, lim \in 1..MaxLimit,
          ef \in {"none"} \cup Kinds, qp \in Outcomes, fs \in Outcomes :
          LET run == semantic_search(f, lim, index, ef, qp, fs)
          IN /\ query_embeddings' = run.embeddings
             /\ filters' = f
             /\ limit' = lim
             /\ compiled' = run.compiled
             /\ chain' = run.chain
             /\ calls' = run.calls
             /\ funnel' = run.funnel
             /\ response' = run.response
    /\ UNCHANGED <<index, text_vars, api_vars, tasks>>

NextSearch == AdvancedSearch \/ SemanticSearch

SpecSearch == InitSearch /\ [][NextSearch]_vars

(***************************************************************************)
(* The representation generator on a text.                                 *)
(***************************************************************************)
MaxWords == 9

\* A text is made of short and medium words, after nothing or one long word.
Words == { <<Run("a", 1)>>, <<Run("b", 150)>> }
Leads == { <<>>, << <<Run("c", 1900)>> >> }

\* The words with the separator between them, and around them when it is
\* more than one space.
RECURSIVE Spaced(_, _)
Spaced(words, sep) ==
    IF words = <<>> THEN <<>>
    ELSE IF Len(words) = 1 THEN words[1]
    ELSE words[1] \o sep \o Spaced(Tail(words), sep)

Separators == { <<Run(" ", 1)>>, <<Run("\n", 1), Run(" ", 2)>> }

Texts ==
    UNION { { IF Len(sep) = 1 THEN Spaced(lead \o ws, sep)
              ELSE sep \o Spaced(lead \o ws, sep) \o sep :
                ws \in [1..n -> Words] } :
            <<n, sep, lead>> \in (0..MaxWords) \X Separators \X Leads }

InitText ==
    /\ text \in Texts
    /\ cleaned_text = <<>>
    /\ chunks = <<>>
    /\ multi_vectors = NoVectors
    /\ filters = NoFilters
    /\ index = <<>>
    /\ Idle
    /\ tasks = <<>>
    /\ NoApi

\* A call of get_colbert_embeddings(text).
GetColbertEmbeddings ==
    /\ multi_vectors = NoVectors
    /\ \E ok \in BOOLEAN :
          LET run == get_colbert_embeddings(text, ok)
          IN /\ cleaned_text' = run.cleaned_text
             /\ chunks' = run.chunks
             /\ multi_vectors' = run.result
    /\ UNCHANGED <<text, search_vars, api_vars, tasks>>

NextText == GetColbertEmbeddings

SpecText == InitText /\ [][NextText]_vars

(***************************************************************************)
(* AdvancedQdrantService on the collection: initialize_collection,         *)
(* add_multi_vector_points, get_case_by_id, get_collection_info and        *)
(* get_unique_filter_values.  `outcome` is what the index does with the    *)
(* call; a call on a collection that does not exist is answered with an    *)
(* error by an index that is reachable.                                    *)
(***************************************************************************)
OnCollection(exists, outcome) ==
    IF outcome = "ok" /\ ~exists THEN "not_found" ELSE outcome

\* initialize_collection: the collection is created, empty, when the index
\* does not list it; when it does, the call only logs that it exists.  An
\* exception is logged and raised again.
initialize_collection(exists, ix, outcome) ==
    IF outcome # "ok"
    THEN [raised |-> TRUE, error |-> outcome, exists |-> exists, index |-> ix,
          calls |-> <<Call("get_collections", outcome)>>]
    ELSE IF ~exists
         THEN [raised |-> FALSE, error |-> "none", exists |-> TRUE, index |-> <<>>,
               calls |-> <<Call("get_collections", "ok"), Call("create_collection", "ok"),
                           Call("create_payload_index", "ok")>>]
         ELSE [raised |-> FALSE, error |-> "none", exists |-> TRUE, index |-> ix,
               calls |-> <<Call("get_collections", "ok")>>]

batch_size == 10

\* The point made of the n-th case: its payload is the case, and it carries a
\* vector of each kind for which embeddings[kind] has an n-th entry, that
\* entry (a vector of the caller's list is named by its place in the list).
\* `embeddings` gives, for each kind, how many vectors the caller supplies.
PointStruct(case, n, embeddings) ==
    [payload |-> case.payload,
     vectors |-> { k \in Kinds : n <= embeddings[k] },
     vector |-> [k \in { k \in Kinds : n <= embeddings[k] } |-> n]]

\* The points of the batch of cases[i:i + batch_size], the j-th made of the
\* case at i + j with the entries at i + j of the embedding lists.
Points_PairedInBatch(cases, i, embeddings) ==
    LET batch_cases == SubSeq(cases, i + 1,
                              IF i + batch_size < Len(cases) THEN i + batch_size
                              ELSE Len(cases))
    IN [j \in DOMAIN batch_cases |->
           [id |-> batch_cases[j].id, point |-> PointStruct(batch_cases[j], j, embeddings)]]

Points(cases, i, embeddings) ==
    LET batch_cases == SubSeq(cases, i + 1,
                              IF i + batch_size < Len(cases) THEN i + batch_size
                              ELSE Len(cases))
    IN [j \in DOMAIN batch_cases |->
           [id |-> batch_cases[j].id,
            point |-> PointStruct(batch_cases[j], i + j, embeddings)]]

\* client.upsert(points): each point is stored under its id, the last of the
\* batch with that id if there are several.
Upsert(ix, points) ==
    LET ids == { points[j].id : j \in DOMAIN points }
        last(d) == CHOOSE j \in DOMAIN points :
                      points[j].id = d /\ \A m \in DOMAIN points : points[m].id = d => m <= j
    IN [d \in DOMAIN ix \cup ids |-> IF d \in ids THEN points[last(d)].point ELSE ix[d]]

UpsertCall(outcome, points) ==
    [op |-> "upsert", outcome |-> outcome, points |-> points]

\* The loop `for i in range(0, len(cases), batch_size)` from i on, `sent`
\* being the upsert calls made so far: each batch is built and upserted; the
\* first upsert that raises ends the loop.  outcomes[b] is what the index does
\* with the b-th upsert.
RECURSIVE UpsertBatches(_, _, _, _, _, _, _)
UpsertBatches(exists, ix, cases, embeddings, outcomes, i, sent) ==
    IF i >= Len(cases)
    THEN [raised |-> FALSE, error |-> "none", index |-> ix, calls |-> sent]
    ELSE LET points == Points(cases, i, embeddings)
             out == OnCollection(exists, outcomes[(i \div batch_size) + 1])
         IN IF out # "ok"
            THEN [raised |-> TRUE, error |-> out, index |-> ix,
                  calls |-> sent \o <<UpsertCall(out, points)>>]
            ELSE UpsertBatches(exists, Upsert(ix, points), cases, embeddings, outcomes,
                               i + batch_size, sent \o <<UpsertCall("ok", points)>>)

\* add_multi_vector_points(cases, embeddings): the cases are upserted batch
\* after batch; an exception is logged and raised again.
add_multi_vector_points(exists, ix, cases, embeddings, outcomes) ==
    UpsertBatches(exists, ix, cases, embeddings, outcomes, 0, <<>>)

\* Optional[Dict]: the payload found, or None.
Found(payload) == [some |-> TRUE, d |-> payload]
NotFound == [some |-> FALSE, d |-> EmptyDict]

\* get_case_by_id: the payload of the point retrieved, None when there is
\* none, and None as well when the retrieval raises.
get_case_by_id(exists, ix, case_id, outcome) ==
    LET out == OnCollection(exists, outcome)
    IN [raised |-> FALSE, error |-> "none",
        result |-> IF out = "ok" /\ case_id \in DOMAIN ix
                   THEN Found(ix[case_id].payload) ELSE NotFound,
        calls |-> <<Call("retrieve", out)>>]

\* get_collection_info: the collection's status and point count, or, when
\* the index call raises, a dict whose status is "error".
get_collection_info(exists, ix, status, outcome) ==
    LET out == OnCollection(exists, outcome)
    IN IF out = "ok"
       THEN [raised |-> FALSE,
             info |-> [status |-> status, points_count |-> Cardinality(DOMAIN ix),
                       error |-> "none"],
             calls |-> <<Call("get_collection", "ok")>>]
       ELSE [raised |-> FALSE,
             info |-> [status |-> "error", points_count |-> 0, error |-> out],
             calls |-> <<Call("get_collection", out)>>]

\* The order of Python's str comparison on the strings of the model.
LexOrder == <<"", "California", "License", "NDA", "NY", "NY ", "Texas", "california">>
Rank(s) == CHOOSE i \in DOMAIN LexOrder : LexOrder[i] = s

\* sorted(list(values))
RECURSIVE Sorted_Reversed(_)
Sorted_Reversed(S) ==
    IF S = {} THEN <<>>
    ELSE LET greatest == CHOOSE s \in S : \A t \in S : Rank(t) <= Rank(s)
         IN <<greatest>> \o Sorted_Reversed(S \ {greatest})

RECURSIVE Sorted(_)
Sorted(S) ==
    IF S = {} THEN <<>>
    ELSE LET least == CHOOSE s \in S : \A t \in S : Rank(s) <= Rank(t)
         IN <<least>> \o Sorted(S \ {least})

\* The keys of the catalog and the payload field each is collected from.
unique_values ==
    << <<"jurisdictions", "jurisdiction">>, <<"court_levels", "court_level">>,
       <<"case_types", "case_type">>, <<"industries", "industry">>,
       <<"company_sizes", "company_size">>, <<"contract_statuses", "contract_status">>,
       <<"complexity_levels", "complexity_level">>, <<"risk_levels", "risk_level">>,
       <<"renewal_terms", "renewal_terms">> >>
CatalogKeys == { unique_values[i][1] : i \in DOMAIN unique_values }
FieldOf(key) == (CHOOSE i \in DOMAIN unique_values : unique_values[i][1] = key)
CatalogField(key) == unique_values[FieldOf(key)][2]

\* client.scroll(limit=1000): the first `limit` points, in id order.
scroll_limit == 1000
Scroll(ix, lim) ==
    { d \in DOMAIN ix : Cardinality({ e \in DOMAIN ix : e < d }) < lim }

\* get_unique_filter_values: per key, the truthy values of its field among
\* the scrolled payloads, as a sorted list; {} when anything raises.  The
\* payload values are strings.
get_unique_filter_values(exists, ix, outcome) ==
    LET out == OnCollection(exists, outcome)
        points == Scroll(ix, scroll_limit)
    IN [options |->
            IF out # "ok" THEN EmptyDict
            ELSE [key \in CatalogKeys |->
                    Sorted({ Get(ix[d].payload, CatalogField(key)).v[1] :
                             d \in { e \in points :
                                       Truthy(Get(ix[e].payload, CatalogField(key))) } })],
        calls |-> <<Call("scroll", out)>>]

(***************************************************************************)
(* SearchOrchestrator.get_case_by_id and get_filter_options; the           *)
(* orchestrator's vector_store lookups are AdvancedQdrantService's         *)
(* get_case_by_id and get_unique_filter_values.                            *)
(***************************************************************************)
\* What a call returned: the value, which may be None.
Return(v) == Results(<<v>>)

\* SearchOrchestrator.get_case_by_id: a truthy lookup result is converted,
\* a falsy one gives None; an exception is logged and raised again.
SearchOrchestrator_get_case_by_id(exists, ix, case_id, outcome) ==
    LET got == get_case_by_id(exists, ix, case_id, outcome)
    IN [response |-> IF got.raised THEN Raise(got.error)
                     ELSE IF got.result.some /\ DOMAIN got.result.d # {}
                          THEN Return(_convert_to_legal_case(got.result.d))
                          ELSE Return(NoneV),
        calls |-> got.calls]

\* SearchOrchestrator.get_filter_options
get_filter_options(exists, ix, outcome) == get_unique_filter_values(exists, ix, outcome)

(***************************************************************************)
(* The HTTP routes (app/presentation/api/legal_search_routes.py).  A       *)
(* response is its status code, the fixed text of its detail, the          *)
(* exception message str(e) the detail ends with ("none" when it carries   *)
(* none) and its body.                                                     *)
(***************************************************************************)
Http(status, detail, exc, body) ==
    [status |-> status, detail |-> detail, exc |-> exc, body |-> body]
HTTPException(status, detail, exc) == Http(status, detail, exc, <<>>)

\* SearchRequest: query of 1 to 1000 characters, limit in 1..100, offset >= 0.
query_min_length == 1
query_max_length == 1000
limit_ge == 1
limit_le == 100
offset_ge == 0

SearchRequestValid(req) ==
    /\ StrLen(req.query) >= query_min_length
    /\ StrLen(req.query) <= query_max_length
    /\ req.limit >= limit_ge
    /\ req.limit <= limit_le
    /\ req.offset >= offset_ge

\* POST /search.  A body that is not a SearchRequest is answered 422 by the
\* framework and the handler does not run; the handler answers 400 to a
\* query that is blank, passes an HTTPException on and answers 500, with the
\* exception's message in the detail, to any other exception.
\* The handler's answer to what semantic_search gave or raised.
SearchAnswer(run) ==
    [http |-> IF run.response.kind = "raised"
              THEN HTTPException(500, "Contract search failed", run.response.error)
              ELSE Http(200, "none", "none", run.response.results),
     response |-> run.response, calls |-> run.calls]
Rejected(status, detail) ==
    [http |-> HTTPException(status, detail, "none"), response |-> NoResponse, calls |-> <<>>]

search_cuad_contracts_NoBlankCheck(req, ix, ef, qp, fs) ==
    IF ~SearchRequestValid(req)
    THEN Rejected(422, "validation error")
    ELSE SearchAnswer(semantic_search(req.filters, req.limit, ix, ef, qp, fs))

search_cuad_contracts(req, ix, ef, qp, fs) ==
    IF ~SearchRequestValid(req)
    THEN Rejected(422, "validation error")
    ELSE IF ~NotBlank(req.query)
         THEN Rejected(400, "Search query cannot be empty")
         ELSE SearchAnswer(semantic_search(req.filters, req.limit, ix, ef, qp, fs))

\* GET /cases/{case_id}: 404 when the orchestrator gives a falsy contract,
\* 500 with the exception's message when it raises.
get_cuad_contract(exists, ix, case_id, outcome) ==
    LET run == SearchOrchestrator_get_case_by_id(exists, ix, case_id, outcome)
    IN [http |-> IF run.response.kind = "raised"
                 THEN HTTPException(500, "Failed to retrieve contract", run.response.error)
                 ELSE IF run.response.results[1] = NoneV
                      THEN HTTPException(404, "CUAD contract not found", "none")
                      ELSE Http(200, "none", "none", run.response.results),
        response |-> run.response, calls |-> run.calls]

\* GET /filters: FilterOptions, each list being options.get(key, []).
get_contract_filters(exists, ix, outcome) ==
    LET run == get_filter_options(exists, ix, outcome)
    IN [http |-> Http(200, "none", "none",
                      [key \in CatalogKeys |->
                          IF key \in DOMAIN run.options THEN run.options[key] ELSE <<>>]),
        response |-> Return(run.options), calls |-> run.calls]

\* GET /health: the overall status is "healthy" whenever get_collection_info
\* returns, and the index status is "healthy" only for a green collection;
\* "unhealthy" and "error" answer an exception of get_collection_info.
health_check(exists, ix, status, outcome) ==
    LET run == get_collection_info(exists, ix, status, outcome)
    IN [http |-> Http(200, "none", "none",
                      IF run.raised
                      THEN [status |-> "unhealthy", qdrant_status |-> "error"]
                      ELSE [status |-> "healthy",
                            qdrant_status |-> IF run.info.status = "green"
                                              THEN "healthy" ELSE "unhealthy"]),
        response |-> Return(run.info), calls |-> run.calls]

\* GET /stats
get_cuad_stats(exists, ix, status, outcome) ==
    LET run == get_collection_info(exists, ix, status, outcome)
    IN [http |-> IF run.raised
                 THEN HTTPException(500, "Failed to get stats", run.info.error)
                 ELSE Http(200, "none", "none",
                           [collection_status |-> run.info.status,
                            total_contracts |-> run.info.points_count]),
        response |-> Return(run.info), calls |-> run.calls]

\* POST /reindex: initialize_collection and nothing else.
reindex_cuad_collection(exists, ix, outcome) ==
    LET run == initialize_collection(exists, ix, outcome)
    IN [http |-> IF run.raised
                 THEN HTTPException(500, "Failed to reindex", run.error)
                 ELSE Http(200, "none", "none", [status |-> "success"]),
        exists |-> run.exists, index |-> run.index, calls |-> run.calls]
(***************************************************************************)
(* The collection under ingestion and the routes that read or reset it.    *)
(***************************************************************************)
StorePayload(jurisdiction, case_type) ==
    [k \in {"jurisdiction", "case_type"} |->
        IF k = "jurisdiction" THEN StrV(jurisdiction) ELSE StrV(case_type)]

\* The cases ingested: their metadata and how many vectors of each kind the
\* caller has for them.  Some jurisdictions differ only in case or in a
\* trailing space, one case type is empty, one case has no jurisdiction and
\* for one case the caller's dense list is empty.
AllKinds == [k \in Kinds |-> 1]
DenseOnly == [k \in Kinds |-> IF k = "dense" THEN 1 ELSE 0]
NoDense == [k \in Kinds |-> IF k = "dense" THEN 0 ELSE 1]
Ingestions ==
    { [payload |-> StorePayload("NY", "License"), embeddings |-> AllKinds],
      [payload |-> StorePayload("NY ", "License"), embeddings |-> AllKinds],
      [payload |-> StorePayload("california", "NDA"), embeddings |-> AllKinds],
      [payload |-> StorePayload("California", ""), embeddings |-> DenseOnly],
      [payload |-> [k \in {"case_type"} |-> StrV("NDA")], embeddings |-> AllKinds],
      [payload |-> StorePayload("Texas", "NDA"), embeddings |-> NoDense] }

CollectionStatuses == {"green", "red"}

InitStore ==
    /\ index = <<>>
    /\ collection_exists \in BOOLEAN
    /\ debug \in BOOLEAN
    /\ request = NoRequest
    /\ http = NoHttp
    /\ filters = NoFilters
    /\ Idle
    /\ tasks = <<>>
    /\ NoText

\* An ingestion script's call of add_multi_vector_points with one case.
AddMultiVectorPoints ==
    /\ \E id \in 1..NumDocs, c \in Ingestions, outcome \in Outcomes :
          LET run == add_multi_vector_points(collection_exists, index,
                        <<[id |-> id, payload |-> c.payload]>>, c.embeddings, <<outcome>>)
          IN /\ index' = run.index
             /\ calls' = run.calls
             /\ response' = IF run.raised THEN Raise(run.error) ELSE Return(NoneV)
             /\ request' = [op |-> "ingest", case_id |-> id]
             /\ http' = NoHttp
    /\ UNCHANGED <<filters, compiled, query_embeddings, limit, chain, funnel>>
    /\ UNCHANGED <<text_vars, collection_exists, debug, tasks>>

\* GET /cases/{case_id}
GetCuadContract ==
    /\ \E case_id \in 1..NumDocs, outcome \in Outcomes :
          LET run == get_cuad_contract(collection_exists, index, case_id, outcome)
          IN /\ request' = [op |-> "get", case_id |-> case_id]
             /\ http' = run.http
             /\ response' = run.response
             /\ calls' = run.calls
    /\ UNCHANGED <<filters, compiled, index, query_embeddings, limit, chain, funnel>>
    /\ UNCHANGED <<text_vars, collection_exists, debug, tasks>>

\* GET /filters
GetContractFilters ==
    /\ \E outcome \in Outcomes :
          LET run == get_contract_filters(collection_exists, index, outcome)
          IN /\ request' = [op |-> "filters", case_id |-> 0]
             /\ http' = run.http
             /\ response' = run.response
             /\ calls' = run.calls
    /\ UNCHANGED <<filters, compiled, index, query_embeddings, limit, chain, funnel>>
    /\ UNCHANGED <<text_vars, collection_exists, debug, tasks>>

\* GET /health
HealthCheck ==
    /\ \E status \in CollectionStatuses, outcome \in Outcomes :
          LET run == health_check(collection_exists, index, status, outcome)
          IN /\ request' = [op |-> "health", case_id |-> 0]
             /\ http' = run.http
             /\ response' = run.response
             /\ calls' = run.calls
    /\ UNCHANGED <<filters, compiled, index, query_embeddings, limit, chain, funnel>>
    /\ UNCHANGED <<text_vars, collection_exists, debug, tasks>>

\* GET /stats
GetCuadStats ==
    /\ \E status \in CollectionStatuses, outcome \in Outcomes :
          LET run == get_cuad_stats(collection_exists, index, status, outcome)
          IN /\ request' = [op |-> "stats", case_id |-> 0]
             /\ http' = run.http
             /\ response' = run.response
             /\ calls' = run.calls
    /\ UNCHANGED <<filters, compiled, index, query_embeddings, limit, chain, funnel>>
    /\ UNCHANGED <<text_vars, collection_exists, debug, tasks>>

\* POST /reindex
ReindexCuadCollection ==
    /\ \E outcome \in Outcomes :
          LET run == reindex_cuad_collection(collection_exists, index, outcome)
          IN /\ request' = [op |-> "reindex", case_id |-> 0]
             /\ http' = run.http
             /\ collection_exists' = run.exists
             /\ index' = run.index
             /\ response' = IF run.http.status = 200 THEN Return(NoneV)
                            ELSE Raise(run.http.exc)
             /\ calls' = run.calls
    /\ UNCHANGED <<filters, compiled, query_embeddings, limit, chain, funnel>>
    /\ UNCHANGED <<text_vars, debug, tasks>>

NextStore ==
    \/ AddMultiVectorPoints
    \/ GetCuadContract
    \/ GetContractFilters
    \/ HealthCheck
    \/ GetCuadStats
    \/ ReindexCuadCollection

SpecStore == InitStore /\ [][NextStore]_vars

(***************************************************************************)
(* POST /search.                                                           *)
(***************************************************************************)
\* Queries: empty, blank, a word, a word within blanks, one character too
\* long.
Queries ==
    { <<>>, <<Run(" ", 2)>>, <<Run("a", 7)>>,
      <<Run(" ", 1), Run("a", 7), Run("\n", 1)>>, <<Run("a", query_max_length + 1)>> }
Limits == {limit_ge - 1, limit_ge, MaxLimit, limit_le, limit_le + 1}
Offsets == {offset_ge - 1, offset_ge}
RouteFilterSpecs == { NoFilters, SomeFilters([k \in {"jurisdiction"} |-> ListV(<<"California">>)]) }
SearchRequests ==
    { [op |-> "search", query |-> q, filters |-> f, limit |-> l, offset |-> o] :
        q \in Queries, f \in RouteFilterSpecs, l \in Limits, o \in Offsets }

InitRoute ==
    /\ index \in Indexes
    /\ collection_exists = TRUE
    /\ debug \in BOOLEAN
    /\ request = NoRequest
    /\ http = NoHttp
    /\ filters = NoFilters
    /\ Idle
    /\ tasks = <<>>
    /\ NoText

\* A request is answered: the response, what the orchestrator gave and the
\* calls made for it.
Answer(req, run) ==
    /\ request' = req
    /\ http' = run.http
    /\ response' = run.response
    /\ calls' = run.calls

SearchCuadContracts ==
    /\ request = NoRequest
    /\ \E req \in SearchRequests, ef \in {"none", "dense"}, qp \in Outcomes, fs \in Outcomes :
          Answer(req, search_cuad_contracts(req, index, ef, qp, fs))
    /\ UNCHANGED <<filters, compiled, index, query_embeddings, limit, chain, funnel>>
    /\ UNCHANGED <<text_vars, collection_exists, debug, tasks>>

NextRoute == SearchCuadContracts

SpecRoute == InitRoute /\ [][NextRoute]_vars

(***************************************************************************)
(* Search requests served concurrently.  Each request is a coroutine of    *)
(* SearchOrchestrator.semantic_search; the event loop may switch between   *)
(* requests where a coroutine awaits: before the embeddings and before the *)
(* funnel.  The collection is not written meanwhile.                       *)
(***************************************************************************)
NumRequests == 2
Requests == 1..NumRequests

\* A request not yet received.
NewTask ==
    [pc |-> "idle",
     request |-> [filters |-> NoFilters, limit |-> 0],
     env |-> [ef |-> "none", qp |-> "ok", fs |-> "ok"],
     embeddings |-> <<>>, compiled |-> Unset, funnel |-> NoResponse,
     response |-> NoResponse]

ConcurrentFilterSpecs ==
    { NoFilters, SomeFilters([k \in {"jurisdiction"} |-> ListV(<<"California">>)]) }
\* What the index does with the multi-stage query and with the fallback's.
IndexOutcomes ==
    { <<"ok", "ok">>, <<"query_error", "ok">>, <<"query_error", "unreachable">>,
      <<"unreachable", "unreachable">> }

SharedIndex ==
    [d \in 1..NumDocs |->
        [payload |-> Payload(IF d % 2 = 1 THEN "Texas" ELSE "California", "License"),
         vectors |-> Kinds]]

\* The locals of request r's coroutine: the request it was called with and
\* the values it has bound so far.  semantic_search and advanced_search keep
\* nothing on `self` or in module globals.
Locals_Shared(ts, r) ==
    LET others == { q \in DOMAIN ts : q # r /\ ts[q].pc # "idle" }
    IN IF others = {} THEN ts[r] ELSE ts[CHOOSE q \in others : TRUE]

Locals(ts, r) == ts[r]

\* semantic_search up to its first await: the request is received.
Received(t, f, lim) ==
    [t EXCEPT !.pc = "arrived", !.request = [filters |-> f, limit |-> lim]]

\* semantic_search after the embeddings: the bundle is bound, or the
\* exception of the getter is raised to the caller.
Embedded_Bundle(t, ef, emb) ==
    IF emb.raised
    THEN [t EXCEPT !.pc = "done", !.env.ef = ef, !.response = Raise("embedding")]
    ELSE [t EXCEPT !.pc = "embedded", !.env.ef = ef, !.embeddings = emb.results]

\* semantic_search after the funnel: the hits are converted and returned.
Searched(t, qp, fs, run) ==
    [t EXCEPT !.pc = "done", !.env.qp = qp, !.env.fs = fs,
              !.compiled = run.compiled, !.funnel = run.response,
              !.response = IF run.response.kind = "raised" THEN run.response
                           ELSE SearchResponse(_convert_to_legal_cases(run.response.results))]

InitConcurrent ==
    /\ index = SharedIndex
    /\ tasks = [r \in Requests |-> NewTask]
    /\ filters = NoFilters
    /\ Idle
    /\ NoText
    /\ NoApi

Arrive ==
    /\ \E r \in Requests, f \in ConcurrentFilterSpecs, lim \in {1, MaxLimit} :
          /\ tasks[r].pc = "idle"
          /\ tasks' = [tasks EXCEPT ![r] = Received(tasks[r], f, lim)]
    /\ UNCHANGED <<search_vars, text_vars, api_vars>>

Embed ==
    /\ \E r \in Requests, ef \in {"none", "colbert"} :
          /\ tasks[r].pc = "arrived"
          /\ tasks' = [tasks EXCEPT ![r] =
                          Embedded_Bundle(tasks[r], ef, get_all_embeddings(ef))]
    /\ UNCHANGED <<search_vars, text_vars, api_vars>>

Search ==
    /\ \E r \in Requests, out \in IndexOutcomes :
          /\ tasks[r].pc = "embedded"
          /\ tasks' = [tasks EXCEPT ![r] =
                          Searched(tasks[r], out[1], out[2],
                                   advanced_search(Locals(tasks, r).embeddings,
                                                   Locals(tasks, r).request.filters,
                                                   Locals(tasks, r).request.limit,
                                                   index, out[1], out[2]))]
    /\ UNCHANGED <<search_vars, text_vars, api_vars>>

NextConcurrent == Arrive \/ Embed \/ Search

SpecConcurrent == InitConcurrent /\ [][NextConcurrent]_vars

(***************************************************************************)
(* Search requests whose external calls may never return.  A call to the   *)
(* representation generator is issued and, unless it hangs, returns later; *)
(* semantic_search awaits it without a timeout, so nothing else ends the   *)
(* wait.  A call to the index is ended by the client's own request timeout *)
(* at the latest, which raises into advanced_search.                       *)
(***************************************************************************)
\* What the generator does with the call: it returns the bundle, one getter
\* raises, or the call never returns.
EmbeddingOutcomes == {"none", "colbert", "never"}

\* semantic_search at `await self.embeddings...`: the call is issued.
Awaiting(t, ef) == [t EXCEPT !.pc = "embedding", !.env.ef = ef]

CallEmbeddings ==
    /\ \E r \in Requests, ef \in EmbeddingOutcomes :
          /\ tasks[r].pc = "arrived"
          /\ tasks' = [tasks EXCEPT ![r] = Awaiting(tasks[r], ef)]
    /\ UNCHANGED <<search_vars, text_vars, api_vars>>

EmbeddingsReturn ==
    /\ \E r \in Requests :
          /\ tasks[r].pc = "embedding"
          /\ tasks[r].env.ef # "never"
          /\ tasks' = [tasks EXCEPT ![r] =
                          Embedded_Bundle(tasks[r], tasks[r].env.ef,
                                          get_all_embeddings(tasks[r].env.ef))]
    /\ UNCHANGED <<search_vars, text_vars, api_vars>>

\* The calls of advanced_search the requests can make on the shared index,
\* each with what it gives: the funnel is a function of its arguments.
FunnelArguments ==
    [embeddings : {AllEmbeddings}, filters : ConcurrentFilterSpecs,
     limit : {1, MaxLimit}, out : IndexOutcomes]
FunnelRuns ==
    { <<a, advanced_search(a.embeddings, a.filters, a.limit, SharedIndex,
                           a.out[1], a.out[2])>> : a \in FunnelArguments }
FunnelRun(a) == (CHOOSE p \in FunnelRuns : p[1] = a)[2]

\* The funnel call of a request returns: advanced_search answers every
\* failure of the index itself.
FunnelReturns ==
    /\ \E r \in Requests, out \in IndexOutcomes :
          /\ tasks[r].pc = "embedded"
          /\ tasks' = [tasks EXCEPT ![r] =
                          Searched(tasks[r], out[1], out[2],
                                   FunnelRun([embeddings |-> Locals(tasks, r).embeddings,
                                              filters |-> Locals(tasks, r).request.filters,
                                              limit |-> Locals(tasks, r).request.limit,
                                              out |-> out]))]
    /\ UNCHANGED <<search_vars, text_vars, api_vars>>

NextLive == Arrive \/ CallEmbeddings \/ EmbeddingsReturn \/ FunnelReturns

SpecLive == InitConcurrent /\ [][NextLive]_vars /\ WF_vars(NextLive)

(***************************************************************************)
(* Ingestion of many cases: add_multi_vector_points on an empty collection *)
(* with more cases than one batch holds, embedding lists that are shorter  *)
(* or longer than the case list, and an upsert that may fail.              *)
(***************************************************************************)
MaxCases == 21
MaxBatches == (MaxCases \div batch_size) + 1

\* The n cases of a call: the case at position k has id k.
IngestCases(n) ==
    [k \in 1..n |->
        [id |-> k,
         payload |-> StorePayload(IF k % 2 = 0 THEN "NY" ELSE "Texas", "NDA")]]

\* The lists the caller has: as many rerank and colbert vectors as cases, and
\* dense and byte lists that may be that long, shorter, longer or empty.
IngestEmbeddings(n) ==
    { [k \in Kinds |-> IF k = "dense" THEN d ELSE IF k = "byte" THEN b ELSE n] :
        d \in {n, 0, 10, 11}, b \in {n, 0, n + 1} }

\* What the index does with each upsert: all succeed, or one of them fails.
UpsertOutcomes ==
    { [b \in 1..MaxBatches |-> "ok"] }
    \cup { [b \in 1..MaxBatches |-> IF b = f THEN error ELSE "ok"] :
             f \in 1..MaxBatches, error \in {"query_error", "unreachable"} }

InitIngest ==
    /\ index = <<>>
    /\ collection_exists = TRUE
    /\ debug = FALSE
    /\ request = NoRequest
    /\ http = NoHttp
    /\ filters = NoFilters
    /\ Idle
    /\ tasks = <<>>
    /\ NoText

\* An ingestion script's call of add_multi_vector_points with n cases.
AddCasesInBatches ==
    /\ request = NoRequest
    /\ \E n \in 0..MaxCases, outcomes \in UpsertOutcomes :
          \E embeddings \in IngestEmbeddings(n) :
             LET run == add_multi_vector_points(collection_exists, index,
                           IngestCases(n), embeddings, outcomes)
             IN /\ index' = run.index
                /\ calls' = run.calls
                /\ response' = IF run.raised THEN Raise(run.error) ELSE Return(NoneV)
                /\ request' = [op |-> "ingest", cases |-> n, embeddings |-> embeddings,
                               outcomes |-> outcomes]
                /\ http' = NoHttp
    /\ UNCHANGED <<filters, compiled, query_embeddings, limit, chain, funnel>>
    /\ UNCHANGED <<text_vars, collection_exists, debug, tasks>>

NextIngest == AddCasesInBatches

SpecIngest == InitIngest /\ [][NextIngest]_vars

(***************************************************************************)
(* Properties.                                                             *)
(***************************************************************************)
Made(op, outcome) == \E i \in DOMAIN calls : calls[i] = Call(op, outcome)
Count(op) == Cardinality({ i \in DOMAIN calls : calls[i].op = op })
MultiStageRaised == Made("advanced", "raised")
FieldSet == { filterable_fields[i] : i \in DOMAIN filterable_fields }
\* The field is given a non-empty value list by the filter spec.
GivenList(f, field) ==
    f.some /\ Get(f.d, field).t = "list" /\ Len(Get(f.d, field).v) > 0
DatePresent(f, k) == f.some /\ Truthy(Get(f.d, k))

\* C1: whenever the multi-stage query raises, advanced_search does not raise:
\* the fallback runs exactly once, after the failed attempt, and what
\* advanced_search returns is what the fallback search returned.
C1_FallbackOnMultiStageFailure ==
    MultiStageRaised =>
        /\ funnel.kind = "results"
        /\ Count("fallback") = 1
        /\ \A i, j \in DOMAIN calls :
              (calls[i].op = "fallback" /\ calls[j].op \in {"advanced", "query_points"})
                  => j < i
        /\ funnel.results =
              IF Made("search", "ok")
              THEN SearchHits(FallbackVector(query_embeddings), compiled, limit, index)
              ELSE <<>>

C1_Witness ==
    /\ Made("query_points", "query_error")
    /\ Made("search", "ok")
    /\ Len(funnel.results) > 0

\* C2: when the multi-stage query fails and the fallback then fails with a
\* query-level error, advanced_search returns an empty list and raises nothing.
C2_EmptyListWhenFallbackFails ==
    (MultiStageRaised /\ Made("fallback", "raised") /\ ~Made("search", "unreachable"))
        => funnel = Results(<<>>)

C2_Witness ==
    /\ Made("query_points", "query_error")
    /\ Made("search", "query_error")
    /\ funnel = Results(<<>>)

\* C3 (as claimed): when the index is unreachable during a search, every call
\* to it failing at the connection, the failure propagates out of
\* advanced_search instead of becoming an empty result list.
C3_UnreachablePropagates ==
    (Made("query_points", "unreachable") /\ Made("search", "unreachable"))
        => funnel.kind = "raised"

\* C4: every result advanced_search returns, from the multi-stage query or
\* from the fallback, has for each recognized field that the filter spec gives
\* a non-empty value list a payload value that is one of the listed values.
C4_ResultsSatisfyFilter ==
    \A i \in DOMAIN funnel.results : \A field \in FieldSet :
        GivenList(filters, field) =>
            \E j \in DOMAIN filters.d[field].v :
                Get(funnel.results[i].payload, field) = StrV(filters.d[field].v[j])

C4_Witness ==
    /\ Made("search", "ok")
    /\ Len(funnel.results) > 0
    /\ GivenList(filters, "jurisdiction") /\ GivenList(filters, "case_type")
    /\ \E d \in DOMAIN index : index[d].payload["jurisdiction"] = StrV("Texas")
    /\ filters.d["jurisdiction"] = ListV(<<"California">>)

\* C5 (as claimed): for every bundle holding at least one representation,
\* each stage of the chain built carries a query vector that the bundle
\* holds; no stage goes out with a null query vector.
C5_StagesCarryPresentQuery ==
    (Len(query_embeddings) > 0 /\ chain # <<>>) =>
        \A n \in DOMAIN chain :
            chain[n].query # "None" /\ Has(query_embeddings, chain[n].query)

AllEmpty(f) ==
    ~f.some \/ \A k \in DOMAIN f.d : f.d[k] = NoneV \/ f.d[k] = ListV(<<>>)

\* C6: a filter spec that is absent, empty, or whose entries are all empty
\* lists or nulls compiles to no filter; a filter with no condition is never
\* produced.
C6_EmptySpecCompilesToNull ==
    compiled # Unset =>
        /\ AllEmpty(filters) => compiled = NoFilter
        /\ compiled.kind = "filter" => Len(compiled.must) > 0

C6_Witness ==
    /\ compiled = NoFilter
    /\ filters.some
    /\ {"jurisdiction", "date_from"} \subseteq DOMAIN filters.d
    /\ AllEmpty(filters)

Recognized(f) ==
    IF f.some
    THEN SomeFilters([k \in DOMAIN f.d \cap (FieldSet \cup {"date_from", "date_to"}) |-> f.d[k]])
    ELSE f

IsoDate(x) == x.t = "str" /\ x.v # <<"">>

\* C8 (as claimed): when a date bound that is an ISO 8601 date string is
\* present, compilation succeeds and emits exactly one range condition on
\* date_filed, with gte iff date_from is present and lte iff date_to is.
C8_DateRangeEmitted ==
    (/\ compiled # Unset
     /\ DatePresent(filters, "date_from") \/ DatePresent(filters, "date_to")
     /\ \A k \in {"date_from", "date_to"} :
            DatePresent(filters, k) => IsoDate(filters.d[k]))
        => /\ compiled.kind = "filter"
           /\ Cardinality({ j \in DOMAIN compiled.must :
                               compiled.must[j].kind = "range" }) = 1
           /\ \A j \in DOMAIN compiled.must :
                 compiled.must[j].kind = "range" =>
                     /\ compiled.must[j].key = "date_filed"
                     /\ compiled.must[j].gte =
                            IF DatePresent(filters, "date_from")
                            THEN filters.d["date_from"] ELSE NoneV
                     /\ compiled.must[j].lte =
                            IF DatePresent(filters, "date_to")
                            THEN filters.d["date_to"] ELSE NoneV

EmbeddingRaised ==
    \E i \in DOMAIN calls :
        calls[i].outcome = "raised" /\ calls[i].op \in { Getter(k) : k \in Kinds }

\* C9: if one of the four getters raises, semantic_search raises to its
\* caller, holds no bundle, calls no getter twice and never calls the index.
C9_EmbeddingFailurePropagates ==
    EmbeddingRaised =>
        /\ response = Raise("embedding")
        /\ query_embeddings = <<>>
        /\ \A i \in DOMAIN calls :
              calls[i].op \notin {"advanced", "query_points", "fallback", "search"}
        /\ \A i, j \in DOMAIN calls : calls[i].op = calls[j].op => i = j
        /\ calls[Len(calls)].outcome = "raised"

C9_Witness ==
    /\ Made("get_dense_embedding", "ok")
    /\ Made("get_rerank_embedding", "ok")
    /\ Made("get_colbert_embeddings", "raised")
    /\ response.kind = "raised"

Returned == multi_vectors.called /\ ~multi_vectors.raised

\* C10: for every text, the empty and the whitespace-only ones included, a
\* call of get_colbert_embeddings that succeeds returns between 1 and 8
\* vectors; when no chunk is usable, the one vector is that of the whole
\* cleaned text.
C10_MultiVectorCount ==
    Returned =>
        /\ Len(multi_vectors.vectors) >= 1
        /\ Len(multi_vectors.vectors) <= max_vectors
        /\ (\A i \in DOMAIN chunks : ~NotBlank(chunks[i]))
              => multi_vectors.vectors = <<cleaned_text>>

C10_Witness ==
    /\ Returned
    /\ Len(chunks) > max_vectors
    /\ Len(multi_vectors.vectors) = max_vectors

\* _clean_text has run on `text`.
Cleaned == multi_vectors.called
\* text after " ".join(text.split())
Collapsed == Join(Split(text))
Marker == <<Run(".", 3)>>
\* Every whitespace run of s is one space character.
SingleSpaced(s) ==
    /\ \A i \in DOMAIN s : IsSpace(s[i].c) => s[i] = Run(" ", 1)
    /\ \A i \in DOMAIN s : i > 1 => ~(IsSpace(s[i].c) /\ IsSpace(s[i - 1].c))
EndsWithMarker(s) == s # <<>> /\ s[Len(s)] = Run(".", 3)

\* C11: for every text, _clean_text returns a text whose whitespace runs are
\* single spaces and whose length is at most max_chars + 3; the marker "..."
\* is appended, after the first max_chars characters of the collapsed text,
\* exactly when the collapsed text is longer than max_chars, and a shorter
\* text is returned collapsed and otherwise unchanged.
C11_CleanTextBounded ==
    Cleaned =>
        /\ SingleSpaced(cleaned_text)
        /\ StrLen(cleaned_text) <= max_chars + 3
        /\ EndsWithMarker(cleaned_text) <=> StrLen(Collapsed) > max_chars
        /\ StrLen(Collapsed) > max_chars =>
              cleaned_text = Concat(Prefix(Collapsed, max_chars), Marker)
        /\ StrLen(Collapsed) <= max_chars =>
              /\ cleaned_text = Collapsed
              /\ Split(cleaned_text) = Split(text)

C11_Witness ==
    /\ Cleaned
    /\ text # <<>>
    /\ text[1].c = "\n"
    /\ StrLen(Collapsed) > max_chars
    /\ StrLen(cleaned_text) = max_chars + 3
    /\ EndsWithMarker(cleaned_text)

\* The funnel returned a list of hits to its caller.
FunnelReturned == funnel.kind = "results"

\* C12 (as claimed): the results returned for a search are the hits of the
\* funnel one for one and in their order: same length, the i-th result
\* carrying the i-th hit's score and metadata, scores descending.
C12_AssemblyOneToOne ==
    FunnelReturned =>
        /\ response.kind = "results"
        /\ Len(response.results) = Len(funnel.results)
        /\ \A i \in DOMAIN response.results :
              /\ response.results[i] # NoneV
              /\ response.results[i].score = funnel.results[i].score
              /\ response.results[i].payload = funnel.results[i].payload
        /\ \A i, j \in DOMAIN response.results :
              i < j => response.results[i].score >= response.results[j].score

\* The request last served is a get-by-id whose point lookup succeeded on an
\* id the collection holds.
LookedUpStored ==
    /\ request.op = "get"
    /\ Made("retrieve", "ok")
    /\ request.case_id \in DOMAIN index

\* C13 (as claimed): a get-by-id with the id of an upserted document returns
\* a result, not an absent one, whose metadata is the upserted metadata, and
\* the only call it makes is the point lookup.
C13_GetByIdRoundTrip ==
    LookedUpStored =>
        /\ response.kind = "results"
        /\ response.results[1] # NoneV
        /\ response.results[1] = index[request.case_id].payload
        /\ http.status = 200
        /\ calls = <<Call("retrieve", "ok")>>

StoreErrors == Outcomes \ {"ok"}

\* C14 (as claimed): when the point lookup of a get-by-id fails with a store
\* error, the caller gets a server error (500), not a not-found (404).
C14_LookupErrorIsServerError ==
    (request.op = "get" /\ \E e \in StoreErrors : Made("retrieve", e))
        => http.status = 500

\* The catalog request last served scrolled the collection.
CatalogServed == request.op = "filters" /\ Made("scroll", "ok")
\* The non-empty values of the key's field among the scanned documents.
ScannedValues(key) ==
    { LexOrder[i] : i \in { j \in DOMAIN LexOrder :
        /\ LexOrder[j] # ""
        /\ \E d \in Scroll(index, scroll_limit) :
              Get(index[d].payload, CatalogField(key)) = StrV(LexOrder[j]) } }

\* C15: the catalog scans at most scroll_limit documents and, for each of
\* its nine keys, lists exactly the distinct non-empty values of the key's
\* field among them, ascending and without duplicates; values that differ
\* only in case or whitespace are separate entries.
C15_CatalogSortedDistinct ==
    CatalogServed =>
        /\ Cardinality(Scroll(index, scroll_limit)) <= scroll_limit
        /\ DOMAIN http.body = CatalogKeys
        /\ \A key \in CatalogKeys :
              /\ { http.body[key][i] : i \in DOMAIN http.body[key] } = ScannedValues(key)
              /\ \A i, j \in DOMAIN http.body[key] :
                    i < j => Rank(http.body[key][i]) < Rank(http.body[key][j])

C15_Witness ==
    /\ CatalogServed
    /\ Cardinality(DOMAIN index) = 2
    /\ http.body["jurisdictions"] = <<"NY", "NY ">>
    /\ http.body["case_types"] = <<"License">>
    /\ http.body["renewal_terms"] = <<>>

\* The search request fails validation: its query is empty or blank, its
\* limit is outside 1..100 or its offset is negative.
FailsValidation(req) ==
    \/ StrLen(req.query) = 0
    \/ ~NotBlank(req.query)
    \/ req.limit < 1
    \/ req.limit > 100
    \/ req.offset < 0

\* C16: a search request that fails validation is answered with a client
\* error, and no call is made for it to the representation generator or to
\* the index.
C16_InvalidRequestRejectedEarly ==
    (request.op = "search" /\ FailsValidation(request)) =>
        /\ http.status \in {400, 422}
        /\ calls = <<>>
        /\ response = NoResponse

C16_Witness ==
    /\ request.op = "search"
    /\ request.query = <<Run(" ", 2)>>
    /\ request.limit = 100
    /\ request.offset = 0
    /\ http.status = 400
    /\ calls = <<>>

\* C17 (as claimed): with debug off, the detail of a server error carries
\* no internal exception message, so that two failures with different
\* messages get the same detail.
C17_ErrorDetailGeneric ==
    (request.op # "none" /\ http.status = 500 /\ ~debug) => http.exc = "none"

\* C18 (as claimed): a health check made while the index cannot be reached
\* reports the overall status unhealthy and the index status in error.
C18_UnreachableIsUnhealthy ==
    (request.op = "health" /\ Made("get_collection", "unreachable")) =>
        /\ http.body.status = "unhealthy"
        /\ http.body.qdrant_status = "error"

\* C19 (as claimed): a reindex request that succeeds on an existing
\* collection leaves the collection recreated and empty: none of the
\* documents stored before it is present after it.
C19_ReindexReplacesCollection ==
    [][(ReindexCuadCollection /\ collection_exists /\ http'.status = 200)
          => /\ collection_exists'
             /\ \A d \in DOMAIN index : d \notin DOMAIN index']_vars

\* What request r would get if it ran alone on the index.
Alone(r) ==
    semantic_search(tasks[r].request.filters, tasks[r].request.limit, index,
                    tasks[r].env.ef, tasks[r].env.qp, tasks[r].env.fs)
SameAsAlone(t, alone) ==
    /\ t.response = alone.response
    /\ t.env.ef = "none" =>
          /\ t.embeddings = alone.embeddings
          /\ t.compiled = alone.compiled
          /\ t.funnel = alone.funnel

C21_SearchCompletes ==
    \A r \in Requests : (tasks[r].pc = "arrived") ~> (tasks[r].pc = "done")

\* C22 (as claimed): every document stored in the collection carries the
\* dense-coarse vector, whatever embedding lists the ingestion calls supplied.
C22_StoredHasDense ==
    \A d \in DOMAIN index : "dense" \in index[d].vectors

\* C23: the fallback search is one single-stage nearest-neighbour query: its
\* query vector is the dense one whenever the bundle holds it and otherwise a
\* vector the bundle holds, its filter is the one compiled from the filter
\* spec of the failed multi-stage call, its score cutoff is the configured
\* similarity threshold and its limit is the caller's, so that the results are
\* the best-scoring points that pass the filter and reach the threshold, at
\* most `limit` of them.
FallbackQualifying(q) ==
    { d \in DOMAIN index : /\ Passes(index[d].payload, compiled)
                           /\ Sim(q, "", d) >= similarity_threshold }

FallbackAnswers(q) ==
    LET hits == funnel.results
    IN /\ Len(hits) <= limit
       /\ Len(hits) = IF Cardinality(FallbackQualifying(q)) < limit
                      THEN Cardinality(FallbackQualifying(q)) ELSE limit
       /\ \A i \in DOMAIN hits :
             /\ hits[i].id \in FallbackQualifying(q)
             /\ hits[i].score = Sim(q, "", hits[i].id)
             /\ hits[i].score >= similarity_threshold
             /\ \A j \in DOMAIN hits : i < j =>
                   /\ hits[i].id # hits[j].id
                   /\ hits[i].score >= hits[j].score
             /\ \A d \in FallbackQualifying(q) \ Ids(hits) :
                   Sim(q, "", d) <= hits[i].score

C23_FallbackSingleStage ==
    Made("search", "ok") =>
        /\ Count("search") = 1
        /\ Count("query_points") <= 1
        /\ compiled = CompileFilter(filters)
        /\ \E q \in Kinds :
              /\ Has(query_embeddings, q)
              /\ Has(query_embeddings, "dense") => q = "dense"
              /\ FallbackAnswers(q)

C23_Witness ==
    /\ Made("search", "ok")
    /\ Has(query_embeddings, "dense")
    /\ compiled.kind = "filter"
    /\ Len(funnel.results) > 0
    /\ \E d \in DOMAIN index :
          /\ Passes(index[d].payload, compiled)
          /\ Sim("dense", "", d) < similarity_threshold

\* C24: in every multi-stage query the funnel builds, the compiled filter is
\* on the prefetch stage and on no other: the rerank stage and the final stage
\* carry no filter, and what each of them returns is among the candidates of
\* the stage before it, hence among the prefetch stage's filtered candidates.
C24_FilterOnPrefetchOnly ==
    chain # <<>> =>
        /\ chain[1].filter = compiled
        /\ \A n \in DOMAIN chain : n > 1 => chain[n].filter = NoFilter
        /\ Made("query_points", "ok") =>
              /\ \A n \in DOMAIN chain : n > 1 =>
                    Ids(ChainHits(chain, n, index))
                        \subseteq Ids(ChainHits(chain, n - 1, index))
              /\ Ids(funnel.results) \subseteq Ids(StageHits(chain[1], DOMAIN index, index))
              /\ \A i \in DOMAIN funnel.results :
                    Passes(index[funnel.results[i].id].payload, compiled)

C24_Witness ==
    /\ Len(chain) = 3
    /\ compiled.kind = "filter"
    /\ chain[1].filter = compiled
    /\ Made("query_points", "ok")
    /\ Len(funnel.results) > 0
    /\ \E d \in DOMAIN index : ~Passes(index[d].payload, compiled)

\* C25: the rerank stage is in the chain exactly when the bundle holds the
\* rerank (dense-fine) vector.  When it is, it is the second of three stages,
\* queries the prefetch stage's candidates with that vector and has ceiling
\* 100, below the prefetch ceiling 1000; when it is not, the chain has the
\* prefetch stage and the final stage only.
C25_RerankStageIffHeld ==
    chain # <<>> =>
        /\ chain[1].using = "byte" /\ chain[1].limit = 1000
        /\ chain[Len(chain)].using \in {"colbert", "dense"}
        /\ chain[Len(chain)].limit = limit
        /\ IF Has(query_embeddings, "rerank")
           THEN /\ Len(chain) = 3
                /\ chain[2].query = "rerank"
                /\ chain[2].using = "rerank"
                /\ chain[2].limit = 100
                /\ chain[2].limit < chain[1].limit
                /\ Made("query_points", "ok") =>
                      Ids(ChainHits(chain, 2, index))
                          \subseteq Ids(ChainHits(chain, 1, index))
           ELSE /\ Len(chain) = 2
                /\ \A n \in DOMAIN chain : chain[n].using # "rerank"

C25_Witness ==
    /\ Has(query_embeddings, "rerank")
    /\ Len(chain) = 3
    /\ chain[2].using = "rerank"
    /\ Made("query_points", "ok")
    /\ Len(ChainHits(chain, 2, index)) > 0

C25_WitnessAbsent ==
    /\ ~Has(query_embeddings, "rerank")
    /\ Len(chain) = 2
    /\ Made("query_points", "ok")

\* C26 (as claimed): when the bundle holds the byte vector or the dense one,
\* the prefetch stage queries with the byte vector if held and else with the
\* dense one, and compares it with the stored vectors of the query's own kind.
C26_PrefetchSameKind ==
    (chain # <<>> /\ (Has(query_embeddings, "byte") \/ Has(query_embeddings, "dense"))) =>
        /\ chain[1].query = IF Has(query_embeddings, "byte") THEN "byte" ELSE "dense"
        /\ chain[1].using = chain[1].query

\* The words of the chunks, chunk after chunk.
RECURSIVE ChunkWords(_)
ChunkWords(cs) ==
    IF cs = <<>> THEN <<>> ELSE Split(Head(cs)) \o ChunkWords(Tail(cs))

\* C27: the chunks of a cleaned text are consecutive, non-empty and
\* word-bounded: their words, chunk after chunk, are the words of the text
\* (none split, lost, duplicated or moved), each chunk is its words joined
\* with single spaces, joining the chunks with single spaces gives the words
\* joined with single spaces, and a chunk is longer than 200 characters only
\* when it is one single word longer than that.
C27_ChunksPartitionWords ==
    Cleaned =>
        /\ ChunkWords(chunks) = Split(cleaned_text)
        /\ Join(chunks) = Join(Split(cleaned_text))
        /\ \A i \in DOMAIN chunks :
              /\ chunks[i] # <<>>
              /\ Split(chunks[i]) # <<>>
              /\ chunks[i] = Join(Split(chunks[i]))
              /\ \/ StrLen(chunks[i]) <= 200
                 \/ /\ Len(Split(chunks[i])) = 1
                    /\ StrLen(Split(chunks[i])[1]) > 200

C27_Witness ==
    /\ Cleaned
    /\ Len(chunks) >= 2
    /\ \E i \in DOMAIN chunks : StrLen(chunks[i]) > 200
    /\ \E i \in DOMAIN chunks :
          Len(Split(chunks[i])) >= 2 /\ StrLen(chunks[i]) <= 200

\* A text of several chunks none of which is a single long word.
C27_WitnessSeveral ==
    /\ Cleaned
    /\ Len(chunks) >= 3
    /\ \E i \in DOMAIN chunks : Len(Split(chunks[i])) >= 2

\* C28: when compiling the filter spec raises inside the multi-stage search,
\* the fallback compiles the same spec, fails in the same way, and
\* advanced_search returns an empty list without raising: no query reaches
\* the index, filtered or not.
C28_UncompilableFilterGivesNothing ==
    (Count("advanced") = 1 /\ CompileFilter(filters).kind = "raised") =>
        /\ compiled.kind = "raised"
        /\ funnel = Results(<<>>)
        /\ chain = <<>>
        /\ Made("advanced", "raised")
        /\ Made("fallback", "raised")
        /\ Count("fallback") = 1
        /\ Count("query_points") = 0
        /\ Count("search") = 0

C28_Witness ==
    /\ compiled.kind = "raised"
    /\ Made("fallback", "raised")
    /\ funnel = Results(<<>>)
    /\ Has(query_embeddings, "dense")
    /\ \E d \in DOMAIN index : Sim("dense", "", d) >= similarity_threshold

\* The filter spec gives the field a value that is not a list and not None:
\* a bare string or a number.
ScalarGiven(f, field) == f.some /\ Get(f.d, field).t \in {"str", "num"}

\* The filter spec without the entry of the field.
Without(f, field) ==
    IF f.some THEN SomeFilters([k \in DOMAIN f.d \ {field} |-> f.d[k]]) ELSE f

\* C29: a recognized categorical field whose value is not a list (a bare
\* string, a number) adds no condition to the compiled filter: the filter is
\* the one the spec gives without that entry, and when no other entry yields a
\* condition there is no filter at all.
C29_ScalarValueIgnored ==
    compiled # Unset =>
        \A field \in FieldSet :
            ScalarGiven(filters, field) =>
                /\ \A j \in DOMAIN compiled.must : compiled.must[j].key # field
                /\ compiled = CompileFilter(Without(filters, field))
                /\ (/\ \A other \in FieldSet : ~GivenList(filters, other)
                    /\ ~DatePresent(filters, "date_from")
                    /\ ~DatePresent(filters, "date_to"))
                      => compiled = NoFilter

C29_Witness ==
    /\ compiled.kind = "filter"
    /\ Get(filters.d, "jurisdiction") = StrV("California")
    /\ Get(filters.d, "case_type") = NumV("5")
    /\ Get(filters.d, "renewal_terms") = ListV(<<"California">>)
    /\ Len(compiled.must) = 1

C29_WitnessNull ==
    /\ compiled = NoFilter
    /\ filters.some
    /\ Get(filters.d, "jurisdiction") = StrV("California")
    /\ Get(filters.d, "case_type") = NumV("5")

\* The points of the upsert calls made, call after call.
RECURSIVE SentPoints(_)
SentPoints(cs) ==
    IF cs = <<>> THEN <<>> ELSE Head(cs).points \o SentPoints(Tail(cs))

IngestedInBatches == request.op = "ingest" /\ "cases" \in DOMAIN request

\* The first batch whose upsert fails, 0 when none does.
FailingBatch ==
    LET n == request.cases
        failing == { b \in 1..((n + 9) \div 10) : request.outcomes[b] # "ok" }
    IN IF failing = {} THEN 0
       ELSE CHOOSE b \in failing : \A c \in failing : b <= c

\* C30: add_multi_vector_points upserts every case once, in input order, in
\* consecutive batches of at most 10, and the case at position k carries, for
\* each kind whose list has a k-th entry, that entry, whatever batch it falls
\* in.  When the upsert of a batch raises, the call raises, the batches before
\* it are stored and those after it are not sent.
C30_BatchedIngestion ==
    IngestedInBatches =>
        LET n == request.cases
            f == FailingBatch
            sent == SentPoints(calls)
            m == IF f = 0 \/ f * 10 > n THEN n ELSE f * 10
            stored == IF f = 0 THEN n ELSE (f - 1) * 10
        IN /\ Len(sent) = m
           /\ \A k \in 1..m :
                 /\ sent[k].id = k
                 /\ sent[k].point.payload = IngestCases(n)[k].payload
                 /\ \A kind \in Kinds :
                       IF request.embeddings[kind] >= k
                       THEN /\ kind \in DOMAIN sent[k].point.vector
                            /\ sent[k].point.vector[kind] = k
                       ELSE kind \notin DOMAIN sent[k].point.vector
           /\ \A i \in DOMAIN calls :
                 /\ calls[i].op = "upsert"
                 /\ Len(calls[i].points) >= 1
                 /\ Len(calls[i].points) <= 10
                 /\ i < Len(calls) => Len(calls[i].points) = 10
                 /\ calls[i].outcome = "ok" <=> i # f
           /\ response.kind = "raised" <=> f # 0
           /\ f # 0 => Len(calls) = f
           /\ DOMAIN index = 1..stored
           /\ \A k \in 1..stored : index[k] = sent[k].point

C30_Witness ==
    /\ IngestedInBatches
    /\ request.cases = MaxCases
    /\ request.embeddings["dense"] = 11
    /\ FailingBatch = 3
    /\ Len(calls) = 3
    /\ DOMAIN index = 1..20

C30_WitnessAllStored ==
    /\ IngestedInBatches
    /\ FailingBatch = 0
    /\ Len(calls) = 3
    /\ DOMAIN index = 1..request.cases

====
